---- MODULE Spec2Model ----
(***************************************************************************)
(* Model of the AI recommendation pipeline of the hydrogen-demo storefront: *)
(* the AIRecommender widget (fetchRecommendations), the recommendation      *)
(* endpoint (action), the Gemini client (getGeminiRecommendations) and the  *)
(* library wrapper getRecommendationsWithFallback; and of the bundle detail *)
(* page: formatBundleFields, collectProducts and the price calculator of   *)
(* its loader.                                                              *)
(*                                                                         *)
(* Strings are sequences of one-character strings, so that the string      *)
(* conversions of the handle matcher are computed character by character.  *)
(***************************************************************************)
EXTENDS Integers, Sequences, FiniteSets, TLC

VARIABLES
    availableProducts,   \* widget prop / context.availableProducts
    fallbackProducts,    \* widget prop / fallbackProducts argument
    recommendedHandles,  \* decoded data.recommendations handed to the matcher
    recommendedProducts, \* widget state (useState)
    loading,             \* widget state (useState)
    error,               \* widget state (useState)
    libResult,           \* value returned by getRecommendationsWithFallback
    applied,             \* SpecMerge: the functions that have been applied
    responseText,        \* data.candidates[0].content.parts[0].text
    parsed,              \* outcome of the response parser on responseText
    apiKey,              \* context.env.GEMINI_API_KEY
    calls,               \* the widget's fetchRecommendations invocations
    requests,            \* the requests the endpoint's action has received
    lib,                 \* the getRecommendationsWithFallback invocations
    metaobject,          \* data.metaobject answered to the bundle page's loader
    loaderData           \* what the bundle page's loader returns or throws

mergeVars == <<availableProducts, fallbackProducts, recommendedHandles,
               recommendedProducts, loading, error, libResult, applied>>
parseVars == <<responseText, parsed>>
systemVars == <<apiKey, calls, requests, lib>>
bundleVars == <<metaobject, loaderData>>
vars == <<mergeVars, parseVars, systemVars, bundleVars>>

----------------------------------------------------------------------------
(* Bounds of the model and constants of the program *)

MaxTokens == 7
MaxFallback == 7
MaxAvailable == 2
MaxTextLen == 5
MaxRequests == 2
MaxProducts == 2

\* .slice(0, 6) and 6 - recommended.length
MaxRecommendations == 6
\* recommended.length < 4
MinRecommended == 4
\* .slice(0, 4 - recommendedProducts.length) in getRecommendationsWithFallback
LibFillTarget == 4

Null == "null"
NotParsed == [done |-> FALSE, ok |-> FALSE, value |-> <<>>, message |-> Null]

----------------------------------------------------------------------------
(* JavaScript strings *)

UpperChars == <<"A","B","C","D","E","F","G","H","I","J","K","L","M",
                "N","O","P","Q","R","S","T","U","V","W","X","Y","Z">>
LowerChars == <<"a","b","c","d","e","f","g","h","i","j","k","l","m",
                "n","o","p","q","r","s","t","u","v","w","x","y","z">>

IsWhitespace(c) == c \in {" ", "\t", "\n"}

\* String.prototype.toLowerCase
ToLowerCase(s) ==
    [i \in 1..Len(s) |->
        IF \E k \in 1..Len(UpperChars) : UpperChars[k] = s[i]
        THEN LowerChars[CHOOSE k \in 1..Len(UpperChars) : UpperChars[k] = s[i]]
        ELSE s[i]]

\* handle.replace(/-/g, '')
StripHyphens(s) ==
    LET NotHyphen(c) == c # "-" IN SelectSeq(s, NotHyphen)

\* handle.replace(/\s+/g, '-'): every maximal run of whitespace becomes one hyphen
RECURSIVE WhitespaceToHyphen(_)
WhitespaceToHyphen(s) ==
    IF s = <<>> THEN <<>>
    ELSE IF IsWhitespace(Head(s))
         THEN IF Len(s) > 1 /\ IsWhitespace(s[2])
              THEN WhitespaceToHyphen(Tail(s))
              ELSE <<"-">> \o WhitespaceToHyphen(Tail(s))
         ELSE <<Head(s)>> \o WhitespaceToHyphen(Tail(s))

----------------------------------------------------------------------------
(* JSON values as decoded by JSON.parse / response.json() *)

JStr(s) == [t |-> "str", v |-> s]
JArr(items) == [t |-> "arr", v |-> items]
IsString(x) == x.t = "str"

----------------------------------------------------------------------------
(* The response parser of getGeminiRecommendations *)

JNull == [t |-> "null", v |-> <<>>]
NoParse == [ok |-> FALSE, val |-> JNull, next |-> 0]

\* the first position from i on that holds no JSON whitespace
RECURSIVE SkipWhitespace(_, _)
SkipWhitespace(s, i) ==
    IF i <= Len(s) /\ IsWhitespace(s[i]) THEN SkipWhitespace(s, i + 1) ELSE i

\* a JSON string literal opening at s[i]: up to the next quote, and a raw line
\* break inside a literal is a syntax error
JsonString(s, i) ==
    LET closing == {j \in (i + 1)..Len(s) : s[j] = "\""}
    IN IF closing = {} THEN NoParse
       ELSE LET j == CHOOSE k \in closing : \A q \in closing : k <= q
            IN IF \E k \in (i + 1)..(j - 1) : s[k] = "\n" THEN NoParse
               ELSE [ok |-> TRUE, val |-> JStr(SubSeq(s, i + 1, j - 1)),
                     next |-> j + 1]

RECURSIVE JsonValue(_, _)
RECURSIVE JsonElements(_, _, _)

\* the elements of an array after its opening bracket (or after a comma), items
\* holding those read so far
JsonElements(s, i, items) ==
    LET start == SkipWhitespace(s, i)
    IN IF start > Len(s) THEN NoParse
       ELSE IF s[start] = "]" /\ items = <<>>
            THEN [ok |-> TRUE, val |-> JArr(<<>>), next |-> start + 1]
            ELSE LET item == JsonValue(s, start)
                     after == SkipWhitespace(s, item.next)
                 IN IF ~item.ok \/ after > Len(s) THEN NoParse
                    ELSE IF s[after] = "]"
                         THEN [ok |-> TRUE,
                               val |-> JArr(Append(items, item.val)),
                               next |-> after + 1]
                         ELSE IF s[after] = ","
                              THEN LET rest == SkipWhitespace(s, after + 1)
                                   IN IF rest <= Len(s) /\ s[rest] = "]"
                                      THEN NoParse
                                      ELSE JsonElements(s, after + 1,
                                                        Append(items, item.val))
                              ELSE NoParse

\* one JSON value starting at s[i]
JsonValue(s, i) ==
    IF i > Len(s) THEN NoParse
    ELSE IF s[i] = "\"" THEN JsonString(s, i)
         ELSE IF s[i] = "[" THEN JsonElements(s, i + 1, <<>>)
              ELSE NoParse

\* JSON.parse: one value with optional whitespace around it, or a SyntaxError
JsonParse(s) ==
    LET r == JsonValue(s, SkipWhitespace(s, 1))
    IN IF r.ok /\ SkipWhitespace(s, r.next) = Len(s) + 1
       THEN [ok |-> TRUE, val |-> r.val]
       ELSE [ok |-> FALSE, val |-> JNull]

\* String.prototype.trim
RECURSIVE Trim(_)
Trim(s) ==
    IF s = <<>> THEN s
    ELSE IF IsWhitespace(Head(s)) THEN Trim(Tail(s))
         ELSE IF IsWhitespace(s[Len(s)]) THEN Trim(SubSeq(s, 1, Len(s) - 1))
              ELSE s

NoMatch == [found |-> FALSE, text |-> <<>>]

\* variant of RegexMatch: a lazy quantifier, /\[.*?\]/s
RegexMatchLazy(s) ==
    LET opens == {i \in 1..Len(s) : s[i] = "["}
        first == CHOOSE i \in opens : \A j \in opens : i <= j
        closes == {j \in 1..Len(s) : s[j] = "]" /\ j > first}
    IN IF opens = {} THEN NoMatch
       ELSE IF closes = {} THEN NoMatch
            ELSE [found |-> TRUE,
                  text |-> SubSeq(s, first,
                                  CHOOSE j \in closes : \A k \in closes : j <= k)]

\* responseText.match(/\[.*\]/s): the leftmost "[" that a "]" follows, then
\* greedily to the last "]" of the text (the s flag lets . cross line breaks)
RegexMatch(s) ==
    LET opens == {i \in 1..Len(s) : s[i] = "["}
        first == CHOOSE i \in opens : \A j \in opens : i <= j
        closes == {j \in 1..Len(s) : s[j] = "]" /\ j > first}
    IN IF opens = {} THEN NoMatch
       ELSE IF closes = {} THEN NoMatch
            ELSE [found |-> TRUE,
                  text |-> SubSeq(s, first,
                                  CHOOSE j \in closes : \A k \in closes : j >= k)]

Thrown(msg) == [ok |-> FALSE, value |-> <<>>, message |-> msg]

\* lines 320-336: trim, match, JSON.parse, Array.isArray
ParseRecommendations(text) ==
    LET jsonMatch == RegexMatch(Trim(text))
        recommendations == JsonParse(jsonMatch.text)
    IN IF ~jsonMatch.found
       THEN Thrown("Could not parse recommendations from Gemini response")
       ELSE IF ~recommendations.ok
            THEN Thrown("SyntaxError")
            ELSE IF recommendations.val.t # "arr"
                 THEN Thrown("Gemini response is not an array")
                 ELSE [ok |-> TRUE, value |-> recommendations.val.v,
                       message |-> Null]

TextChars == {"[", "]", ",", "\"", "a", "\n"}

\* the sequences over S of length at most n
RECURSIVE SeqsUpTo(_, _)
SeqsUpTo(S, n) ==
    IF n = 0 THEN {<<>>}
    ELSE LET shorter == SeqsUpTo(S, n - 1)
         IN shorter \cup {Append(s, c) : s \in shorter, c \in S}

Texts == SeqsUpTo(TextChars, MaxTextLen)

----------------------------------------------------------------------------
(* Products and the inputs the model draws *)

RedShirt == <<"r","e","d","-","s","h","i","r","t">>
RedShirtNoHyphen == <<"r","e","d","s","h","i","r","t">>
RedShirtTitle == <<"R","e","d"," ","S","h","i","r","t">>
Hat == <<"h","a","t">>
Unknown == <<"z","z","z">>

Product(i, h) == [id |-> i, handle |-> h]
\* what Array.prototype.find returns when nothing matches
Undefined == Product(0, <<>>)

pRedShirt == Product(1, RedShirt)
pRedShirtNoHyphen == Product(2, RedShirtNoHyphen)
pHat == Product(3, Hat)

AvailableUniverse == {pRedShirt, pRedShirtNoHyphen}
FallbackUniverse == {pRedShirt, pRedShirtNoHyphen, pHat}
TokenUniverse == {JStr(RedShirt), JStr(RedShirtNoHyphen), JStr(RedShirtTitle),
                  JStr(Unknown)}

Cycle(base, n) == [i \in 1..n |-> base[((i - 1) % Len(base)) + 1]]

\* the sequences of period one or two over U, of length at most maxLen
Periodic(U, maxLen) ==
    {<<>>} \cup {Cycle(<<u, v>>, n) : u \in U, v \in U, n \in 1..maxLen}

\* the sequences of distinct elements of U, of length at most maxLen
RECURSIVE Distinct(_, _)
Distinct(U, maxLen) ==
    IF maxLen = 0 THEN {<<>>}
    ELSE LET shorter == Distinct(U, maxLen - 1)
         IN shorter \cup UNION {{Append(s, u) : u \in U \ {s[i] : i \in 1..Len(s)}} :
                                   s \in shorter}

AvailableLists == Distinct(AvailableUniverse, MaxAvailable)
FallbackLists == Periodic(FallbackUniverse, MaxFallback)
TokenLists == Periodic(TokenUniverse, MaxTokens)

----------------------------------------------------------------------------
(* The handle matcher and the fallback merger *)

Min(a, b) == IF a < b THEN a ELSE b

\* Array.prototype.slice(0, n), n >= 0
SliceTo(s, n) == SubSeq(s, 1, Min(n, Len(s)))

\* the predicate of availableProducts.find in fetchRecommendations
WidgetMatches(p, handle) ==
    \/ p.handle = handle
    \/ p.handle = StripHyphens(handle)
    \/ p.handle = ToLowerCase(WhitespaceToHyphen(handle))

\* the predicate of context.availableProducts.find in getRecommendationsWithFallback
LibMatches(p, handle) ==
    \/ p.handle = handle
    \/ p.handle = StripHyphens(handle)

\* variant of Find: the last matching product instead of the first
FindLast(products, test) ==
    IF \E i \in 1..Len(products) : test[i]
    THEN products[CHOOSE i \in 1..Len(products) :
                     /\ test[i]
                     /\ \A j \in (i + 1)..Len(products) : ~test[j]]
    ELSE Undefined

\* Array.prototype.find; test[i] is the predicate's value on products[i]
Find(products, test) ==
    IF \E i \in 1..Len(products) : test[i]
    THEN products[CHOOSE i \in 1..Len(products) :
                     /\ test[i]
                     /\ \A j \in 1..(i - 1) : ~test[j]]
    ELSE Undefined

\* handle.replace is evaluated, and throws a TypeError on a value that is not a
\* string, as soon as the predicate runs on one product
ThrowsTypeError(handles, products) ==
    /\ products # <<>>
    /\ \E i \in 1..Len(handles) : ~IsString(handles[i])

Truthy(p) == p # Undefined

\* recommendedHandles.map(find).filter(Boolean).slice(0, 6) of the widget
WidgetMatched(handles, products) ==
    LET found == [i \in 1..Len(handles) |->
                    Find(products, [n \in 1..Len(products) |->
                                      WidgetMatches(products[n], handles[i].v)])]
    IN SliceTo(SelectSeq(found, Truthy), MaxRecommendations)

\* recommendedHandles.map(find).filter(Boolean).slice(0, 6) of the library
LibMatched(handles, products) ==
    LET found == [i \in 1..Len(handles) |->
                    Find(products, [n \in 1..Len(products) |->
                                      LibMatches(products[n], handles[i].v)])]
    IN SliceTo(SelectSeq(found, Truthy), MaxRecommendations)

\* fallbackProducts.filter((p) => !usedHandles.has(p.handle))
NotUsed(fallback, matched) ==
    LET usedHandles == {matched[i].handle : i \in 1..Len(matched)}
        Fresh(p) == p.handle \notin usedHandles
    IN SelectSeq(fallback, Fresh)

\* variant of WidgetMerge: the fallback products are appended without the
\* usedHandles filter
WidgetMergeUnfiltered(matched, fallback) ==
    LET recommended ==
            IF Len(matched) < MinRecommended /\ Len(fallback) > 0
            THEN matched \o SliceTo(fallback, MaxRecommendations - Len(matched))
            ELSE matched
    IN IF Len(recommended) > 0 THEN recommended
       ELSE SliceTo(fallback, MaxRecommendations)

\* variant of WidgetMerge: the fallback fills every result shorter than 6
WidgetMergeAlwaysFill(matched, fallback) ==
    LET recommended ==
            IF Len(matched) < MaxRecommendations /\ Len(fallback) > 0
            THEN matched \o SliceTo(NotUsed(fallback, matched),
                                    MaxRecommendations - Len(matched))
            ELSE matched
    IN IF Len(recommended) > 0 THEN recommended
       ELSE SliceTo(fallback, MaxRecommendations)

\* lines 102-113 of the widget: fill with fallback, then choose what is stored
WidgetMerge(matched, fallback) ==
    LET recommended ==
            IF Len(matched) < MinRecommended /\ Len(fallback) > 0
            THEN matched \o SliceTo(NotUsed(fallback, matched),
                                    MaxRecommendations - Len(matched))
            ELSE matched
    IN IF Len(recommended) > 0 THEN recommended
       ELSE SliceTo(fallback, MaxRecommendations)

\* lines 368-379 of getRecommendationsWithFallback
LibMerge(matched, fallback) ==
    LET recommended ==
            IF Len(matched) < MinRecommended /\ Len(fallback) > 0
            THEN matched \o SliceTo(NotUsed(fallback, matched),
                                    LibFillTarget - Len(matched))
            ELSE matched
    IN IF Len(recommended) > 0 THEN recommended
       ELSE SliceTo(fallback, MaxRecommendations)

\* the body of the widget's try block from `const recommendedHandles` on: the
\* products to store, or the TypeError the matcher raised
WidgetSettle(handles, products, fallback) ==
    IF ThrowsTypeError(handles, products)
    THEN [ok |-> FALSE, products |-> <<>>,
          message |-> "handle.replace is not a function"]
    ELSE [ok |-> TRUE,
          products |-> WidgetMerge(WidgetMatched(handles, products), fallback),
          message |-> Null]

\* the body of the library's try block after the handles arrived
LibSettle(handles, products, fallback) ==
    IF ThrowsTypeError(handles, products)
    THEN [ok |-> FALSE, products |-> <<>>,
          message |-> "handle.replace is not a function"]
    ELSE [ok |-> TRUE,
          products |-> LibMerge(LibMatched(handles, products), fallback),
          message |-> Null]

(* JavaScript numbers of the bundle price calculator.  A number is NaN or a *)
(* multiple of 1/Unit; the amounts and discounts drawn below are multiples  *)
(* of one half, for which sums, differences and subtotal * percent / 100    *)
(* are exact in this representation.                                        *)

Unit == 400

NaN == [nan |-> TRUE, v |-> 0]
Num(n) == [nan |-> FALSE, v |-> n]
IsNaN(x) == x.nan

Add(x, y) == IF x.nan \/ y.nan THEN NaN ELSE Num(x.v + y.v)
Sub(x, y) == IF x.nan \/ y.nan THEN NaN ELSE Num(x.v - y.v)
\* (x * y) / 100; the product is divided by Unit one part at a time, which
\* gives the same quotient and keeps the intermediate values small
TimesPercent(x, y) ==
    IF x.nan \/ y.nan THEN NaN
    ELSE Num(((x.v \div Unit) * y.v + ((x.v % Unit) * y.v) \div Unit) \div 100)
\* x > 0, false for NaN
Positive(x) == ~x.nan /\ x.v > 0

\* Number.prototype.toFixed(0) of a number that is not NaN: the nearest
\* integer, the larger magnitude on a tie, as a number
ToFixed0(x) ==
    IF x.v >= 0 THEN Num(((x.v + Unit \div 2) \div Unit) * Unit)
    ELSE Num(-(((-x.v + Unit \div 2) \div Unit) * Unit))

Digits == <<"0", "1", "2", "3", "4", "5", "6", "7", "8", "9">>
IsDigit(c) == \E i \in 1..Len(Digits) : Digits[i] = c
DigitValue(c) == (CHOOSE i \in 1..Len(Digits) : Digits[i] = c) - 1

\* the position after the run of decimal digits that starts at s[i]
RECURSIVE DigitsEnd(_, _)
DigitsEnd(s, i) ==
    IF i <= Len(s) /\ IsDigit(s[i]) THEN DigitsEnd(s, i + 1) ELSE i

\* the integer written by the digits s[i] .. s[j - 1]
RECURSIVE DigitsValue(_, _, _)
DigitsValue(s, i, j) ==
    IF j <= i THEN 0
    ELSE 10 * DigitsValue(s, i, j - 1) + DigitValue(s[j - 1])

RECURSIVE PowerOfTen(_)
PowerOfTen(n) == IF n = 0 THEN 1 ELSE 10 * PowerOfTen(n - 1)

\* parseFloat of a string: leading whitespace, a sign, digits, a point and
\* digits; what follows the longest such prefix is ignored, and a string
\* with no digit there gives NaN (exponents and Infinity are not drawn)
ParseFloatString(s) ==
    LET a == SkipWhitespace(s, 1)
        signed == a <= Len(s) /\ s[a] \in {"-", "+"}
        negative == signed /\ s[a] = "-"
        b == IF signed THEN a + 1 ELSE a
        c == DigitsEnd(s, b)
        point == c <= Len(s) /\ s[c] = "."
        d == IF point THEN DigitsEnd(s, c + 1) ELSE c
        fraction == IF point THEN d - (c + 1) ELSE 0
        magnitude == DigitsValue(s, b, c) * Unit
                       + IF fraction = 0 THEN 0
                         ELSE (DigitsValue(s, c + 1, d) * Unit)
                                  \div PowerOfTen(fraction)
    IN IF (c - b) + fraction = 0 THEN NaN
       ELSE Num(IF negative THEN -magnitude ELSE magnitude)

\* undefined, as a value
JsUndefined == [t |-> "undefined", v |-> <<>>]

\* parseFloat(value): a value that is not a string is converted to one first
\* ("undefined", "null", "[object Object]"), which holds no number
ParseFloat(value) ==
    IF IsString(value) THEN ParseFloatString(value.v) ELSE NaN

----------------------------------------------------------------------------
(* The bundle detail page: metaobject fields, references and the normalizer *)

\* !x for the values drawn here
Falsy(x) == x.t \in {"null", "undefined"} \/ (x.t = "str" /\ x.v = <<>>)
\* x ?? fallback
Coalesce(x, fallback) == IF x.t \in {"null", "undefined"} THEN fallback ELSE x

\* an object {url, altText}: the image of a MediaImage and the result of
\* formatImageReference
Image(url, altText) == [t |-> "object", url |-> url, altText |-> altText]

\* a reference of the query: __typename with the selected fields of the
\* MediaImage, GenericFile and Product fragments
Reference(typename, image, url, alt, amount, variants) ==
    [typename |-> typename, image |-> image, url |-> url, alt |-> alt,
     amount |-> amount, variants |-> variants]
\* field.reference === null
NoReference ==
    Reference("null", JNull, JsUndefined, JsUndefined, JsUndefined, <<>>)
MediaImage(image) ==
    Reference("MediaImage", image, JsUndefined, JsUndefined, JsUndefined, <<>>)
GenericFile(url, alt) ==
    Reference("GenericFile", JsUndefined, url, alt, JsUndefined, <<>>)
\* a reference of a type the query selects no fields of
OtherReference(typename) ==
    Reference(typename, JsUndefined, JsUndefined, JsUndefined, JsUndefined, <<>>)
ProductReference(amount, variants) ==
    Reference("Product", JsUndefined, JsUndefined, JsUndefined, amount, variants)

\* a field of the metaobject; references stands for references.nodes and is
\* empty when references is null
Field(key, type, value, reference, references) ==
    [key |-> key, type |-> type, value |-> value, reference |-> reference,
     references |-> references]

\* formatImageReference, lines 106-127
FormatImageReference(reference) ==
    IF reference.typename = "null" THEN JNull
    ELSE IF reference.typename = "MediaImage"
         THEN LET url == IF Falsy(reference.image) THEN JNull
                         ELSE Coalesce(reference.image.url, JNull)
              IN IF Falsy(url) THEN JNull
                 ELSE Image(url, Coalesce(reference.image.altText, JStr(<<>>)))
         ELSE IF reference.typename = "GenericFile"
              THEN IF Falsy(reference.url) THEN JNull
                   ELSE Image(reference.url, Coalesce(reference.alt, JStr(<<>>)))
              ELSE JNull

\* extractPlainText, lines 83-104, for values that hold no JSON object: the
\* walk of a decoded array, string or null finds no text node, and a value
\* that does not decode is returned as it is
ExtractPlainText(value) ==
    IF Falsy(value) THEN JStr(<<>>)
    ELSE IF JsonParse(value.v).ok THEN JStr(<<>>) ELSE value

\* acc[key] = value
Put(acc, key, value) ==
    [k \in (DOMAIN acc) \cup {key} |-> IF k = key THEN value ELSE acc[k]]
\* obj[key], undefined for a key the object does not have
Get(obj, key) == IF key \in DOMAIN obj THEN obj[key] ELSE JsUndefined
\* {}
EmptyObject == [k \in {} |-> JsUndefined]

\* formatBundleFields, lines 129-151: the reduce from field i on
RECURSIVE FormatFieldsFrom(_, _, _)
FormatFieldsFrom(fields, i, acc) ==
    IF i > Len(fields) THEN acc
    ELSE LET field == fields[i]
             image == FormatImageReference(field.reference)
         IN FormatFieldsFrom(fields, i + 1,
                IF field.key = "products" THEN acc
                ELSE IF field.type = "rich_text_field"
                     THEN Put(acc, field.key, ExtractPlainText(field.value))
                     ELSE IF field.type = "file_reference" /\ ~Falsy(image)
                          THEN Put(acc, field.key, image)
                          ELSE Put(acc, field.key, field.value))

FormatBundleFields(fields) == FormatFieldsFrom(fields, 1, EmptyObject)

\* isProductReference, lines 153-155
IsProductReference(reference) == reference.typename = "Product"

\* isProductField, lines 165-168
IsProductField(field) ==
    field.type \in {"product_reference", "list.product_reference"}

\* normalizeProduct, lines 157-163
NormalizeProduct(reference) ==
    [typename |-> reference.typename, amount |-> reference.amount,
     variants |-> reference.variants,
     firstVariant |-> IF reference.variants = <<>> THEN JNull
                      ELSE reference.variants[1]]

\* the products one field contributes to collectProducts, lines 174-189
FieldProducts(field) ==
    IF ~IsProductField(field) THEN <<>>
    ELSE (IF IsProductReference(field.reference) THEN <<field.reference>>
          ELSE <<>>)
         \o SelectSeq(field.references, IsProductReference)

\* collectProducts, lines 170-192
RECURSIVE CollectFrom(_, _)
CollectFrom(fields, i) ==
    IF i > Len(fields) THEN <<>>
    ELSE FieldProducts(fields[i]) \o CollectFrom(fields, i + 1)

CollectProducts(fields) ==
    LET found == CollectFrom(fields, 1)
    IN [n \in 1..Len(found) |-> NormalizeProduct(found[n])]

----------------------------------------------------------------------------
(* The bundle price calculator of the loader, lines 219-242 *)

FixedPriceType == <<"f", "i", "x", "e", "d", "_", "p", "r", "i", "c", "e">>
PercentageType == <<"p", "e", "r", "c", "e", "n", "t", "a", "g", "e">>

\* `You save ${number}${suffix}`, and the empty string
Label(number, suffix) == [text |-> "You save", number |-> number, suffix |-> suffix]
EmptyLabel == [text |-> "", number |-> Num(0), suffix |-> ""]

\* the subtotal of products[1..n], lines 219-222
RECURSIVE SubtotalTo(_, _)
SubtotalTo(products, n) ==
    IF n = 0 THEN Num(0)
    ELSE LET price == ParseFloat(products[n].amount)
         IN Add(SubtotalTo(products, n - 1), IF IsNaN(price) THEN Num(0) ELSE price)

Subtotal(products) == SubtotalTo(products, Len(products))

PriceOf(subtotal, bundlePrice, savingsLabel) ==
    [subtotal |-> subtotal, bundlePrice |-> bundlePrice,
     savingsLabel |-> savingsLabel]

\* variant of FixedPrice: a discount that is not a number keeps the subtotal
FixedPriceGuarded(pricing, discountValue) ==
    LET bundlePrice == ParseFloat(discountValue)
        savings == Sub(pricing.subtotal, bundlePrice)
    IN IF IsNaN(bundlePrice) THEN pricing
       ELSE PriceOf(pricing.subtotal, bundlePrice,
                    IF Positive(savings) THEN Label(ToFixed0(savings), "")
                    ELSE pricing.savingsLabel)

\* the body of `if (bundle.bundle_type === 'fixed_price')`, lines 227-233
FixedPrice(pricing, discountValue) ==
    LET bundlePrice == ParseFloat(discountValue)
        savings == Sub(pricing.subtotal, bundlePrice)
    IN PriceOf(pricing.subtotal, bundlePrice,
               IF Positive(savings) THEN Label(ToFixed0(savings), "")
               ELSE pricing.savingsLabel)

\* variant of Percentage: the saving is taken for the price
PercentageSavingAsPrice(pricing, discountValue) ==
    LET discountPercent == ParseFloat(discountValue)
        savings == TimesPercent(pricing.subtotal, discountPercent)
    IN IF IsNaN(discountPercent) THEN pricing
       ELSE PriceOf(pricing.subtotal, savings,
                    Label(ToFixed0(discountPercent), "%"))

\* the body of `if (bundle.bundle_type === 'percentage')`, lines 235-242
Percentage(pricing, discountValue) ==
    LET discountPercent == ParseFloat(discountValue)
        savings == TimesPercent(pricing.subtotal, discountPercent)
    IN IF IsNaN(discountPercent) THEN pricing
       ELSE PriceOf(pricing.subtotal, Sub(pricing.subtotal, savings),
                    Label(ToFixed0(discountPercent), "%"))

\* lines 219-248: subtotal, the two discounted bundle types, pricing
Pricing(bundle, products) ==
    LET subtotal == Subtotal(products)
        initial == PriceOf(subtotal, subtotal, EmptyLabel)
        fixed == IF Get(bundle, "bundle_type") = JStr(FixedPriceType)
                 THEN FixedPrice(initial, Get(bundle, "discount_value"))
                 ELSE initial
    IN IF Get(bundle, "bundle_type") = JStr(PercentageType)
       THEN Percentage(fixed, Get(bundle, "discount_value"))
       ELSE fixed

\* the loader has not run
NotLoaded ==
    [status |-> 0, bundle |-> EmptyObject, products |-> <<>>,
     pricing |-> PriceOf(Num(0), Num(0), EmptyLabel)]

\* loader, lines 197-255, once the storefront query has answered with meta
Loader(meta) ==
    IF meta.id = JNull
    THEN [NotLoaded EXCEPT !.status = 404]
    ELSE LET fieldsObject == FormatBundleFields(meta.fields)
             products == CollectProducts(meta.fields)
             withId == Put(Put(EmptyObject, "id", meta.id), "handle", meta.handle)
             bundle == [k \in (DOMAIN withId) \cup (DOMAIN fieldsObject) |->
                           IF k \in DOMAIN fieldsObject THEN fieldsObject[k]
                           ELSE withId[k]]
         IN [status |-> 200, bundle |-> bundle, products |-> products,
             pricing |-> Pricing(bundle, products)]

\* the bundle part of the state in the specifications that do not load a bundle
BundleIdle ==
    /\ metaobject = [id |-> JNull, handle |-> JNull, fields |-> <<>>]
    /\ loaderData = NotLoaded

\* the system part of the state in the specifications that apply one function
SystemIdle ==
    /\ apiKey = "key"
    /\ calls = <<>>
    /\ requests = <<>>
    /\ lib = <<>>

----------------------------------------------------------------------------
(* SpecMerge: the matcher and the merger applied to drawn inputs *)

InitMerge ==
    /\ availableProducts \in AvailableLists
    /\ fallbackProducts \in FallbackLists
    /\ recommendedHandles \in TokenLists
    /\ recommendedProducts = <<>>
    /\ libResult = <<>>
    /\ loading = TRUE
    /\ error = Null
    /\ applied = {}
    /\ responseText = <<>>
    /\ parsed = NotParsed
    /\ SystemIdle
    /\ BundleIdle

\* fetchRecommendations on a successful response carrying recommendedHandles
ApplyWidgetMerge ==
    /\ "widget" \notin applied
    /\ applied' = applied \cup {"widget"}
    /\ IF availableProducts = <<>>
       THEN /\ recommendedProducts' = SliceTo(fallbackProducts, MaxRecommendations)
            /\ error' = error
       ELSE LET r == WidgetSettle(recommendedHandles, availableProducts,
                                  fallbackProducts)
            IN IF r.ok
               THEN /\ recommendedProducts' = r.products
                    /\ error' = Null
               ELSE /\ recommendedProducts' =
                           SliceTo(fallbackProducts, MaxRecommendations)
                    /\ error' = r.message
    /\ loading' = FALSE
    /\ UNCHANGED <<availableProducts, fallbackProducts, recommendedHandles,
                   libResult, parseVars, systemVars, bundleVars>>

\* getRecommendationsWithFallback once getGeminiRecommendations returned
\* recommendedHandles
ApplyLibMerge ==
    /\ "lib" \notin applied
    /\ applied' = applied \cup {"lib"}
    /\ LET r == LibSettle(recommendedHandles, availableProducts, fallbackProducts)
       IN libResult' = IF r.ok THEN r.products
                       ELSE SliceTo(fallbackProducts, MaxRecommendations)
    /\ UNCHANGED <<availableProducts, fallbackProducts, recommendedHandles,
                   recommendedProducts, loading, error, parseVars, systemVars,
                   bundleVars>>

NextMerge == ApplyWidgetMerge \/ ApplyLibMerge

SpecMerge == InitMerge /\ [][NextMerge]_vars

----------------------------------------------------------------------------
(* Claims about the matcher and the merger, checked under SpecMerge *)

WidgetApplied == "widget" \in applied /\ availableProducts # <<>>
LibApplied == "lib" \in applied

HandlesOf(products) == {products[i].handle : i \in 1..Len(products)}
NoDuplicateHandle(products) ==
    \A i, j \in 1..Len(products) :
        i # j => products[i].handle # products[j].handle

\* the matched sequences, as the inputs of the merge step
WidgetMatchedNow == WidgetMatched(recommendedHandles, availableProducts)
LibMatchedNow == LibMatched(recommendedHandles, availableProducts)

\* the positions of the fallback products whose handle no matched product has
FreshPositions(matched) ==
    {i \in 1..Len(fallbackProducts) :
        fallbackProducts[i].handle \notin HandlesOf(matched)}

\* the k-th smallest element of a set of positions
Nth(positions, k) ==
    CHOOSE i \in positions : Cardinality({j \in positions : j <= i}) = k

\* C1: the sequence the widget stores has at most 6 entries and no two entries
\* with the same handle.
C1_AtMostSixDistinct ==
    "widget" \in applied =>
        /\ Len(recommendedProducts) <= 6
        /\ NoDuplicateHandle(recommendedProducts)

\* C2: in both implementations, when no token matched and the fallback list is
\* not empty, the output is exactly the first 6 fallback products, in order.
C2_EmptyMatchGivesFirstSix ==
    /\ (WidgetApplied /\ WidgetMatchedNow = <<>> /\ fallbackProducts # <<>>)
          => recommendedProducts =
                 SubSeq(fallbackProducts, 1, Min(6, Len(fallbackProducts)))
    /\ (LibApplied /\ LibMatchedNow = <<>> /\ fallbackProducts # <<>>)
          => libResult =
                 SubSeq(fallbackProducts, 1, Min(6, Len(fallbackProducts)))

\* C3: in the widget, with fewer than 4 matched products and a non-empty
\* fallback list, the output is the matched sequence followed by the fallback
\* products whose handle is not a matched handle, in fallback order, until the
\* total is 6 or the fallback list is exhausted.
C3_WidgetFill ==
    (WidgetApplied /\ Len(WidgetMatchedNow) < 4 /\ fallbackProducts # <<>>) =>
        LET m == Len(WidgetMatchedNow)
            fresh == FreshPositions(WidgetMatchedNow)
            added == Min(Cardinality(fresh), 6 - m)
        IN /\ Len(recommendedProducts) = m + added
           /\ \A k \in 1..m : recommendedProducts[k] = WidgetMatchedNow[k]
           /\ \A k \in 1..added :
                  recommendedProducts[m + k] = fallbackProducts[Nth(fresh, k)]

C3_Witness ==
    /\ WidgetApplied
    /\ Len(WidgetMatchedNow) \in 1..3
    /\ Len(recommendedProducts) = 6
    /\ FreshPositions(WidgetMatchedNow) # 1..Len(fallbackProducts)
    /\ Cardinality(FreshPositions(WidgetMatchedNow)) > 6 - Len(WidgetMatchedNow)

\* C4: with 4 or more matched products no fallback product is appended: the
\* output is the matched sequence, in both implementations.
C4_NoFillFromFour ==
    /\ (WidgetApplied /\ Len(WidgetMatchedNow) >= 4)
          => recommendedProducts = WidgetMatchedNow
    /\ (LibApplied /\ Len(LibMatchedNow) >= 4)
          => libResult = LibMatchedNow

C4_Witness ==
    /\ WidgetApplied /\ LibApplied
    /\ Len(WidgetMatchedNow) \in 4..5
    /\ Len(LibMatchedNow) \in 4..5
    /\ FreshPositions(WidgetMatchedNow) # {}
    /\ FreshPositions(LibMatchedNow) # {}

\* C5: for the product stored as "red-shirt", each of the tokens "red-shirt",
\* "redshirt" and "Red Shirt" matches it, in both implementations.
C5_ThreeEncodingsMatch ==
    (/\ availableProducts = <<pRedShirt>>
     /\ fallbackProducts = <<>>
     /\ Len(recommendedHandles) = 1
     /\ recommendedHandles[1].v \in {RedShirt, RedShirtNoHyphen, RedShirtTitle})
    => /\ WidgetApplied => recommendedProducts = <<pRedShirt>>
       /\ LibApplied => libResult = <<pRedShirt>>

\* C6: the matched sequence follows the order of the tokens; each token gives
\* the first available product that matches it; a token that matches none is
\* dropped, and no error is raised.
C6_TokenOrderFirstMatch ==
    (WidgetApplied /\ fallbackProducts = <<>>) =>
        LET Hit(i) == \E n \in 1..Len(availableProducts) :
                         WidgetMatches(availableProducts[n], recommendedHandles[i].v)
            hits == {i \in 1..Len(recommendedHandles) : Hit(i)}
            FirstFor(i) ==
                CHOOSE n \in 1..Len(availableProducts) :
                    /\ WidgetMatches(availableProducts[n], recommendedHandles[i].v)
                    /\ \A q \in 1..(n - 1) :
                          ~WidgetMatches(availableProducts[q],
                                         recommendedHandles[i].v)
        IN /\ error = Null
           /\ Len(recommendedProducts) = Min(6, Cardinality(hits))
           /\ \A k \in 1..Len(recommendedProducts) :
                  recommendedProducts[k] = availableProducts[FirstFor(Nth(hits, k))]

C6_Witness ==
    /\ WidgetApplied /\ fallbackProducts = <<>>
    /\ availableProducts = <<pRedShirtNoHyphen, pRedShirt>>
    /\ recommendedHandles = <<JStr(Unknown), JStr(RedShirt), JStr(Unknown)>>
    /\ recommendedProducts = <<pRedShirtNoHyphen>>

----------------------------------------------------------------------------
(* SpecParse: the response parser applied to drawn texts *)

InitParse ==
    /\ responseText \in Texts
    /\ parsed = NotParsed
    /\ availableProducts = <<>>
    /\ fallbackProducts = <<>>
    /\ recommendedHandles = <<>>
    /\ recommendedProducts = <<>>
    /\ libResult = <<>>
    /\ loading = TRUE
    /\ error = Null
    /\ applied = {}
    /\ SystemIdle
    /\ BundleIdle

\* getGeminiRecommendations from `const jsonMatch` to its return or throw
ApplyParse ==
    /\ ~parsed.done
    /\ LET r == ParseRecommendations(responseText)
       IN parsed' = [done |-> TRUE, ok |-> r.ok, value |-> r.value,
                     message |-> r.message]
    /\ UNCHANGED <<responseText, mergeVars, systemVars, bundleVars>>

NextParse == ApplyParse

SpecParse == InitParse /\ [][NextParse]_vars

\* the text the parser matches on
Trimmed == Trim(responseText)

\* positions i < j of the trimmed text with "[" first at i and "]" last at j
IsGreedySpan(i, j) ==
    /\ i < j
    /\ Trimmed[i] = "[" /\ \A k \in 1..(i - 1) : Trimmed[k] # "["
    /\ Trimmed[j] = "]" /\ \A k \in (j + 1)..Len(Trimmed) : Trimmed[k] # "]"

\* C9: the parser fails when the text has no "[...]" substring, when the
\* substring from the first "[" to the last "]" does not decode as JSON, or
\* when the decoded value is not an array; it returns tokens only when that
\* substring decodes to an array, and then returns its elements.
C9_ParserFailsOrReturnsArray ==
    parsed.done =>
        LET spans == {ij \in (1..Len(Trimmed)) \X (1..Len(Trimmed)) :
                         IsGreedySpan(ij[1], ij[2])}
        IN /\ spans = {} => ~parsed.ok
           /\ \A ij \in spans :
                 LET decoded == JsonParse(SubSeq(Trimmed, ij[1], ij[2]))
                 IN IF decoded.ok /\ decoded.val.t = "arr"
                    THEN parsed.ok /\ parsed.value = decoded.val.v
                    ELSE ~parsed.ok
           /\ ~parsed.ok => parsed.message # Null /\ parsed.value = <<>>

\* prose around two arrays: the greedy span is not JSON, so the parser fails
C9_Witness ==
    /\ parsed.done /\ ~parsed.ok
    /\ responseText = <<"[", "]", "a", "[", "]">>

----------------------------------------------------------------------------
(* The recommendation endpoint, the Gemini client and the widget's effect *)

Quote(h) == <<"\"">> \o h \o <<"\"">>
TextOneHandle == <<"[">> \o Quote(RedShirt) \o <<"]">>
TextEmptyArray == <<"[", "]">>
TextNestedArray == <<"[", "[", "]", "]">>
TextProse == <<"s", "o", "r", "r", "y">>
SysTexts == {TextOneHandle, TextEmptyArray, TextNestedArray, TextProse}

\* what the generative API's HTTP call comes back with: the fetch rejects, the
\* status is not a success, the body is not the expected envelope (it is not
\* JSON, or has no candidates[0].content.parts, or no text in parts[0]), or
\* the envelope carries a text
Reply(kind, text) == [kind |-> kind, text |-> text]
NoReply == Reply("none", <<>>)
UpstreamReplies ==
    {Reply(k, <<>>) : k \in {"reject", "http_error", "malformed"}}
        \cup {Reply("text", t) : t \in SysTexts}

SysAvailable == {<<>>, <<pRedShirt>>}
SysFallback == {<<>>, Cycle(<<pHat, pRedShirt>>, MaxFallback)}
Methods == {"POST", "PUT"}
Bodies == {"valid", "invalid"}
ApiKeys == {"", "key"}

\* getGeminiRecommendations after its fetch settled (lines 305-340): the decoded
\* array, or the error it rethrows
GeminiOutcome(reply) ==
    CASE reply.kind = "reject" -> Thrown("fetch failed")
      [] reply.kind = "http_error" -> Thrown("Gemini API error")
      [] reply.kind = "malformed" -> Thrown("Invalid response from Gemini API")
      [] reply.kind = "text" -> ParseRecommendations(reply.text)

Response(status, recommendations, message) ==
    [status |-> status, recommendations |-> recommendations, error |-> message]
NoResponse == Response(0, <<>>, Null)

\* variant of ActionEntry: the API key is checked before the method
ActionEntryKeyFirst(method, key) ==
    IF key = "" THEN Response(500, <<>>, "Gemini API key not configured")
    ELSE IF method # "POST" THEN Response(405, <<>>, "Method not allowed")
         ELSE NoResponse

\* action, lines 8-20: the response returned before any await, or NoResponse
\* when the handler goes on to read the body
ActionEntry(method, key) ==
    IF method # "POST" THEN Response(405, <<>>, "Method not allowed")
    ELSE IF key = "" THEN Response(500, <<>>, "Gemini API key not configured")
         ELSE NoResponse

\* action, lines 37-44: the response for what getGeminiRecommendations gave
ActionResult(outcome) ==
    IF outcome.ok THEN Response(200, outcome.value, Null)
    ELSE Response(500, <<>>, outcome.message)

NewRequest(method, body, caller) ==
    [method |-> method, body |-> body, caller |-> caller, pc |-> "received",
     outbound |-> 0, response |-> NoResponse, reply |-> NoReply]

\* variant of UpstreamStep: a failed call is tried once more
UpstreamStepRetry(req, reply) ==
    IF ~GeminiOutcome(reply).ok /\ req.outbound < 2
    THEN [req EXCEPT !.outbound = @ + 1, !.reply = reply]
    ELSE [req EXCEPT !.pc = "replied", !.reply = reply,
                     !.response = ActionResult(GeminiOutcome(reply))]

\* the request once the outbound call settled: the action returns or catches
UpstreamStep(req, reply) ==
    [req EXCEPT !.pc = "replied", !.reply = reply,
                !.response = ActionResult(GeminiOutcome(reply))]

\* variant of WidgetCatch: the error is recorded, the fallback is not stored
WidgetCatchNoFallback(message, fallback) ==
    [products |-> <<>>, error |-> message]

\* the widget's catch block, lines 114-118
WidgetCatch(message, fallback) ==
    [products |-> SliceTo(fallback, MaxRecommendations), error |-> message]

\* the library's catch block, lines 380-382
LibCatch(fallback) == SliceTo(fallback, MaxRecommendations)

\* the invocations started from outside so far
Started ==
    Len(calls) + Len(lib)
        + Cardinality({r \in 1..Len(requests) : requests[r].caller = 0})

InitSystem ==
    /\ availableProducts \in SysAvailable
    /\ fallbackProducts \in SysFallback
    /\ recommendedProducts = <<>>
    /\ loading = TRUE
    /\ error = Null
    /\ apiKey \in ApiKeys
    /\ calls = <<>>
    /\ requests = <<>>
    /\ lib = <<>>
    /\ recommendedHandles = <<>>
    /\ libResult = <<>>
    /\ applied = {}
    /\ responseText = <<>>
    /\ parsed = NotParsed
    /\ BundleIdle

idleVars == <<recommendedHandles, libResult, applied, parseVars, apiKey,
              bundleVars>>

\* a fetchRecommendations invocation that has returned: its closure is gone
Finished(req, outcome) ==
    [pc |-> "done", avail |-> <<>>, fallback |-> <<>>, req |-> req,
     outcome |-> outcome]

\* a getRecommendationsWithFallback invocation that has returned
Returned(fallback, outbound, outcome, result) ==
    [pc |-> "done", avail |-> <<>>, fallback |-> fallback, outbound |-> outbound,
     outcome |-> outcome, result |-> result]

\* fetchRecommendations up to its first await (lines 50-80)
StartFetch(available, fallback) ==
    IF available = <<>>
    THEN /\ recommendedProducts' = SliceTo(fallback, MaxRecommendations)
         /\ loading' = FALSE
         /\ calls' = Append(calls, Finished(0, "shortcut"))
         /\ UNCHANGED <<error, requests>>
    ELSE /\ loading' = TRUE
         /\ error' = Null
         /\ requests' = Append(requests,
                               NewRequest("POST", "valid", Len(calls) + 1))
         /\ calls' = Append(calls, [pc |-> "fetch", avail |-> available,
                                    fallback |-> fallback,
                                    req |-> Len(requests) + 1,
                                    outcome |-> "pending"])
         /\ UNCHANGED recommendedProducts

\* the effect runs after the first render
Mount ==
    /\ calls = <<>>
    /\ Started < MaxRequests
    /\ StartFetch(availableProducts, fallbackProducts)
    /\ UNCHANGED <<availableProducts, fallbackProducts, lib, idleVars>>

\* the parent passes new props and the effect runs again
PropsChange(available, fallback) ==
    /\ calls # <<>>
    /\ Started < MaxRequests
    /\ availableProducts' = available
    /\ fallbackProducts' = fallback
    /\ StartFetch(available, fallback)
    /\ UNCHANGED <<lib, idleVars>>

\* catch and finally of fetchRecommendations (lines 114-121)
CallFails(c, message) ==
    LET caught == WidgetCatch(message, calls[c].fallback)
    IN /\ recommendedProducts' = caught.products
       /\ error' = caught.error
       /\ loading' = FALSE
       /\ calls' = [calls EXCEPT ![c] = Finished(@.req, "failed")]

\* await fetch(...) rejects: the network failed
FetchRejects(c) ==
    /\ calls[c].pc = "fetch"
    /\ CallFails(c, "Failed to fetch")
    /\ UNCHANGED <<availableProducts, fallbackProducts, requests, lib, idleVars>>

\* await fetch(...) resolves with the endpoint's response (lines 62-84)
FetchSettles(c) ==
    /\ calls[c].pc = "fetch"
    /\ requests[calls[c].req].pc = "replied"
    /\ IF requests[calls[c].req].response.status \notin 200..299
       THEN CallFails(c, "Failed to fetch recommendations")
       ELSE /\ calls' = [calls EXCEPT ![c].pc = "json"]
            /\ UNCHANGED <<recommendedProducts, loading, error>>
    /\ UNCHANGED <<availableProducts, fallbackProducts, requests, lib, idleVars>>

\* await response.json() resolves; the rest of the try block and finally
\* (lines 86-121)
JsonSettles(c) ==
    /\ calls[c].pc = "json"
    /\ LET data == requests[calls[c].req].response
           settled == WidgetSettle(data.recommendations, calls[c].avail,
                                   calls[c].fallback)
       IN IF settled.ok
          THEN /\ recommendedProducts' = settled.products
               /\ loading' = FALSE
               /\ calls' = [calls EXCEPT ![c] = Finished(@.req, "stored")]
               /\ UNCHANGED error
          ELSE CallFails(c, settled.message)
    /\ UNCHANGED <<availableProducts, fallbackProducts, requests, lib, idleVars>>

\* another client sends a request that the router hands to action
ClientRequest(method, body) ==
    /\ Started < MaxRequests
    /\ requests' = Append(requests, NewRequest(method, body, 0))
    /\ UNCHANGED <<availableProducts, fallbackProducts, recommendedProducts,
                   loading, error, calls, lib, idleVars>>

\* action up to `await request.json()` (lines 8-22)
HandleRequest(r) ==
    /\ requests[r].pc = "received"
    /\ LET entry == ActionEntry(requests[r].method, apiKey)
       IN requests' =
              IF entry = NoResponse
              THEN [requests EXCEPT ![r].pc = "body"]
              ELSE [requests EXCEPT ![r].pc = "replied", ![r].response = entry]
    /\ UNCHANGED <<availableProducts, fallbackProducts, recommendedProducts,
                   loading, error, calls, lib, idleVars>>

\* request.json() settles; getGeminiRecommendations runs up to its fetch
\* (lines 22-35 and 232-305)
BodyRead(r) ==
    /\ requests[r].pc = "body"
    /\ requests' =
           IF requests[r].body = "invalid"
           THEN [requests EXCEPT ![r].pc = "replied",
                                 ![r].response = ActionResult(Thrown("SyntaxError"))]
           ELSE IF apiKey = ""
                THEN [requests EXCEPT
                         ![r].pc = "replied",
                         ![r].response =
                             ActionResult(Thrown("Gemini API key is required"))]
                ELSE [requests EXCEPT ![r].pc = "upstream", ![r].outbound = @ + 1]
    /\ UNCHANGED <<availableProducts, fallbackProducts, recommendedProducts,
                   loading, error, calls, lib, idleVars>>

\* the outbound call settles; getGeminiRecommendations returns or throws and
\* action answers (lines 305-340 and 37-44)
UpstreamSettles(r, reply) ==
    /\ requests[r].pc = "upstream"
    /\ requests' = [requests EXCEPT ![r] = UpstreamStep(@, reply)]
    /\ UNCHANGED <<availableProducts, fallbackProducts, recommendedProducts,
                   loading, error, calls, lib, idleVars>>

\* getRecommendationsWithFallback is called with the configured key;
\* getGeminiRecommendations runs up
\* to its fetch, or throws for a missing key (lines 355-356 and 232-305)
LibStart(available, fallback) ==
    /\ Started < MaxRequests
    /\ lib' = Append(lib,
                     IF apiKey = ""
                     THEN Returned(fallback, 0, "failed", LibCatch(fallback))
                     ELSE [pc |-> "upstream", avail |-> available,
                           fallback |-> fallback, outbound |-> 1,
                           outcome |-> "pending",
                           result |-> <<>>])
    /\ UNCHANGED <<availableProducts, fallbackProducts, recommendedProducts,
                   loading, error, calls, requests, idleVars>>

\* the outbound call settles; the rest of getRecommendationsWithFallback
\* (lines 356-383)
LibUpstreamSettles(l, reply) ==
    /\ lib[l].pc = "upstream"
    /\ LET outcome == GeminiOutcome(reply)
           settled == IF outcome.ok
                      THEN LibSettle(outcome.value, lib[l].avail, lib[l].fallback)
                      ELSE [ok |-> FALSE, products |-> <<>>,
                            message |-> outcome.message]
       IN lib' = [lib EXCEPT ![l] =
                     IF settled.ok
                     THEN Returned(@.fallback, 1, "returned", settled.products)
                     ELSE Returned(@.fallback, 1, "failed", LibCatch(@.fallback))]
    /\ UNCHANGED <<availableProducts, fallbackProducts, recommendedProducts,
                   loading, error, calls, requests, idleVars>>

Next ==
    \/ Mount
    \/ \E available \in SysAvailable, fallback \in SysFallback :
          PropsChange(available, fallback)
    \/ \E c \in 1..Len(calls) : FetchRejects(c)
    \/ \E c \in 1..Len(calls) : FetchSettles(c)
    \/ \E c \in 1..Len(calls) : JsonSettles(c)
    \/ \E method \in Methods, body \in Bodies : ClientRequest(method, body)
    \/ \E r \in 1..Len(requests) : HandleRequest(r)
    \/ \E r \in 1..Len(requests) : BodyRead(r)
    \/ \E r \in 1..Len(requests), reply \in UpstreamReplies :
          UpstreamSettles(r, reply)
    \/ \E available \in SysAvailable, fallback \in SysFallback :
          LibStart(available, fallback)
    \/ \E l \in 1..Len(lib), reply \in UpstreamReplies :
          LibUpstreamSettles(l, reply)

Spec == InitSystem /\ [][Next]_vars

----------------------------------------------------------------------------
(* Claims about the endpoint and the failure paths, checked under Spec *)

FirstSix(products) == SubSeq(products, 1, Min(6, Len(products)))

\* the texts of SysTexts that hold a JSON array, with the array each holds
ArrayIn(text) ==
    CASE text = TextOneHandle -> <<JStr(RedShirt)>>
      [] text = TextEmptyArray -> <<>>
      [] text = TextNestedArray -> <<JArr(<<>>)>>
HoldsArray(reply) ==
    /\ reply.kind = "text"
    /\ reply.text \in {TextOneHandle, TextEmptyArray, TextNestedArray}

\* C7: every failure of the recommendation call is caught and never
\* propagates: the call ends with exactly the first 6 fallback products (the
\* widget also records the error message and ends with loading false).
C7_FailuresFallBack ==
    [][/\ \A c \in 1..Len(calls) :
             /\ calls'[c].pc \in {"fetch", "json", "done"}
             /\ calls'[c].outcome \in {"pending", "stored", "failed", "shortcut"}
             /\ (/\ calls[c].pc = "fetch" /\ calls'[c].pc # "fetch"
                 /\ requests[calls[c].req].response.status # 200)
                    => calls'[c].pc = "done" /\ calls'[c].outcome = "failed"
             /\ (calls[c].pc # "done" /\ calls'[c].outcome = "failed")
                    => /\ calls'[c].pc = "done"
                       /\ recommendedProducts' = FirstSix(calls[c].fallback)
                       /\ error' # Null
                       /\ loading' = FALSE
       /\ \A l \in 1..Len(lib') :
             /\ lib'[l].pc \in {"upstream", "done"}
             /\ lib'[l].outcome \in {"pending", "returned", "failed"}
             /\ (apiKey = "" /\ l > Len(lib)) => lib'[l].outcome = "failed"
             /\ lib'[l].outcome = "failed"
                    => /\ lib'[l].pc = "done"
                       /\ lib'[l].result = FirstSix(lib'[l].fallback)
      ]_vars

\* a widget call failed on a 500 for an unparsable text, and a library call
\* failed: both ended on the first 6 of 7 fallback products
C7_Witness ==
    /\ \E c \in 1..Len(calls) :
          /\ calls[c].outcome = "failed"
          /\ requests[calls[c].req].response.status = 500
          /\ requests[calls[c].req].reply = Reply("text", TextProse)
    /\ Len(fallbackProducts) = 7
    /\ recommendedProducts = FirstSix(fallbackProducts)
    /\ error # Null
    /\ ~loading
    /\ \E l \in 1..Len(lib) :
          /\ lib[l].outcome = "failed"
          /\ lib[l].outbound = 1
          /\ Len(lib[l].fallback) = 7
          /\ Len(lib[l].result) = 6

\* C8: the action answers with exactly one of: 405 and an error when the
\* method is not POST (no outbound call); 500 and an error when the API key is
\* absent (no outbound call) or when the generative call or the parsing
\* fails; 200 and the recommendations only when the generative call returned
\* a decodable array. No exception escapes.
C8_ActionAnswers ==
    \A r \in 1..Len(requests) :
        LET q == requests[r]
            answer == q.response
        IN /\ q.pc \in {"received", "body", "upstream", "replied"}
           /\ q.pc # "replied" => answer = NoResponse
           /\ q.pc = "replied" =>
                /\ answer.status \in {200, 405, 500}
                /\ q.method # "POST" =>
                       answer.status = 405 /\ answer.error # Null /\ q.outbound = 0
                /\ (q.method = "POST" /\ apiKey = "") =>
                       answer.status = 500 /\ answer.error # Null /\ q.outbound = 0
                /\ answer.status = 405 => q.method # "POST"
                /\ answer.status = 200 <=>
                       (q.method = "POST" /\ apiKey # "" /\ HoldsArray(q.reply))
                /\ answer.status = 200 =>
                       /\ answer.error = Null
                       /\ answer.recommendations = ArrayIn(q.reply.text)
                /\ answer.status # 200 =>
                       answer.error # Null /\ answer.recommendations = <<>>

\* one request was answered 200 with the decoded array, another 405
C8_Witness ==
    \E r1, r2 \in 1..Len(requests) :
        /\ requests[r1].pc = "replied"
        /\ requests[r1].response = Response(200, <<JStr(RedShirt)>>, Null)
        /\ requests[r2].pc = "replied"
        /\ requests[r2].response.status = 405

\* C10: one request makes at most one outbound call to the generative API;
\* when that call fails the request is answered at once, with no second call.
C10_SingleAttempt ==
    \A r \in 1..Len(requests) :
        LET q == requests[r]
        IN /\ q.outbound <= 1
           /\ q.reply # NoReply => q.pc = "replied" /\ q.outbound = 1
           /\ (q.pc = "replied" /\ q.reply # NoReply /\ ~HoldsArray(q.reply))
                  => q.response.status = 500

\* a request whose only outbound call came back with an HTTP error
C10_Witness ==
    \E r \in 1..Len(requests) :
        /\ requests[r].pc = "replied"
        /\ requests[r].reply = Reply("http_error", <<>>)
        /\ requests[r].outbound = 1
        /\ requests[r].response.status = 500

----------------------------------------------------------------------------
(* SpecBundle: the loader of the bundle detail page applied to drawn        *)
(* metaobjects                                                              *)

\* the decimal strings drawn for amounts and discounts, with the number each
\* one writes; the last two write no number
Written ==
    { [text |-> <<"8", "0">>, number |-> Num(80 * Unit)],
      [text |-> <<"2", "5">>, number |-> Num(25 * Unit)],
      [text |-> <<"1", "2", ".", "5">>, number |-> Num(12 * Unit + Unit \div 2)],
      [text |-> <<"2", "0", ".", "5">>, number |-> Num(20 * Unit + Unit \div 2)],
      [text |-> <<"1", "0", "0">>, number |-> Num(100 * Unit)],
      [text |-> <<"1", "0", ".", "5">>, number |-> Num(10 * Unit + Unit \div 2)],
      [text |-> <<"4", "0">>, number |-> Num(40 * Unit)],
      [text |-> <<"a", "b", "c">>, number |-> NaN],
      [text |-> <<>>, number |-> NaN] }

Text(number) == (CHOOSE w \in Written : w.number = number /\ w.text # <<>>).text

DiscountValues ==
    { JStr(Text(Num(80 * Unit))), JStr(Text(Num(25 * Unit))),
      JStr(Text(Num(12 * Unit + Unit \div 2))),
      JStr(Text(Num(20 * Unit + Unit \div 2))), JStr(Text(NaN)), JStr(<<>>) }
Amounts ==
    { JStr(Text(Num(100 * Unit))), JStr(Text(Num(10 * Unit + Unit \div 2))),
      JStr(Text(Num(40 * Unit))), JStr(Text(NaN)) }
BundleTypes == { JStr(FixedPriceType), JStr(PercentageType), JStr(<<"b", "o", "g", "o">>) }

Gid == JStr(<<"g", "i", "d">>)
Url == JStr(<<"u", "r", "l">>)
Alt == JStr(<<"a", "l", "t">>)

Variant == [t |-> "object", id |-> Gid]
\* a product of the list: one that is priced has a variant
ListedProduct(amount) ==
    ProductReference(amount, IF IsNaN(ParseFloat(amount)) THEN <<>> ELSE <<Variant>>)

ImageReferences ==
    { NoReference, MediaImage(JNull), MediaImage(Image(JNull, JNull)),
      MediaImage(Image(Url, JNull)), MediaImage(Image(Url, Alt)),
      GenericFile(JNull, Alt), GenericFile(Url, JNull), OtherReference("Video") }

\* the optional fields a metaobject is drawn with: none or one of each
OptionalField(key, type, values) ==
    {<<>>} \cup {<<Field(key, type, value, NoReference, <<>>)>> : value \in values}

Metaobjects ==
    { [id |-> Gid, handle |-> JStr(<<"k", "i", "t">>),
       fields |-> type \o discount
                    \o <<Field("description", "rich_text_field", text,
                               NoReference, <<>>),
                         Field("image", "file_reference", Gid, reference, <<>>),
                         Field("products", "list.product_reference", Gid,
                               NoReference,
                               [n \in 1..Len(amounts) |-> ListedProduct(amounts[n])])>>] :
        type \in OptionalField("bundle_type", "single_line_text_field", BundleTypes),
        discount \in OptionalField("discount_value", "number_decimal", DiscountValues),
        text \in {JStr(<<"[", "]">>), JStr(<<"a">>)},
        reference \in ImageReferences,
        amounts \in SeqsUpTo(Amounts, MaxProducts) }

\* data.metaobject === null
NoMetaobject == [id |-> JNull, handle |-> JNull, fields |-> <<>>]

InitBundle ==
    /\ metaobject \in Metaobjects \cup {NoMetaobject}
    /\ loaderData = NotLoaded
    /\ availableProducts = <<>>
    /\ fallbackProducts = <<>>
    /\ recommendedHandles = <<>>
    /\ recommendedProducts = <<>>
    /\ libResult = <<>>
    /\ loading = TRUE
    /\ error = Null
    /\ applied = {}
    /\ responseText = <<>>
    /\ parsed = NotParsed
    /\ SystemIdle

\* loader: the query answers and the loader returns, or throws the 404
LoadBundle ==
    /\ loaderData.status = 0
    /\ loaderData' = Loader(metaobject)
    /\ UNCHANGED <<metaobject, mergeVars, parseVars, systemVars>>

NextBundle == LoadBundle

SpecBundle == InitBundle /\ [][NextBundle]_vars

----------------------------------------------------------------------------
(* Claims about the bundle detail page, under SpecBundle *)

BundleLoaded == loaderData.status = 200

\* the value of the metaobject's field `key`, undefined when it has none
FieldValue(key) ==
    IF \E i \in 1..Len(metaobject.fields) : metaobject.fields[i].key = key
    THEN metaobject.fields[CHOOSE i \in 1..Len(metaobject.fields) :
                               metaobject.fields[i].key = key].value
    ELSE JsUndefined

\* the number the metaobject's discount_value writes, NaN when it writes none
DiscountNumber ==
    IF FieldValue("discount_value") = JsUndefined THEN NaN
    ELSE (CHOOSE w \in Written : w.text = FieldValue("discount_value").v).number

\* the sum of the numbers the products' amounts write
RECURSIVE AmountsTo(_)
AmountsTo(n) ==
    IF n = 0 THEN 0
    ELSE LET number == (CHOOSE w \in Written :
                            w.text = loaderData.products[n].amount.v).number
         IN AmountsTo(n - 1) + IF number.nan THEN 0 ELSE number.v

ProductsSubtotal == Num(AmountsTo(Len(loaderData.products)))

\* n is x rounded to a nearest whole number
Rounds(n, x) ==
    /\ ~n.nan /\ ~x.nan
    /\ n.v % Unit = 0
    /\ 2 * (n.v - x.v) <= Unit
    /\ 2 * (x.v - n.v) <= Unit

\* C11 as stated: for a numeric discount_value d and the subtotal s,
\* fixed_price gives bundlePrice = d and a savings label that states s - d
\* exactly when s - d > 0, percentage gives bundlePrice = s - s*d/100 and a
\* label that states d percent, and any other type gives bundlePrice = s and
\* no label.
C11_PriceAndLabel ==
    (BundleLoaded /\ ~DiscountNumber.nan) =>
        LET s == ProductsSubtotal
            d == DiscountNumber
            price == loaderData.pricing
        IN /\ price.subtotal = s
           /\ FieldValue("bundle_type") = JStr(FixedPriceType) =>
                  /\ price.bundlePrice = d
                  /\ price.savingsLabel # EmptyLabel <=> s.v - d.v > 0
                  /\ s.v - d.v > 0 =>
                         price.savingsLabel = Label(Num(s.v - d.v), "")
           /\ FieldValue("bundle_type") = JStr(PercentageType) =>
                  /\ price.bundlePrice = Sub(s, TimesPercent(s, d))
                  /\ price.savingsLabel = Label(d, "%")
           /\ FieldValue("bundle_type") \notin
                      {JStr(FixedPriceType), JStr(PercentageType)} =>
                  /\ price.bundlePrice = s
                  /\ price.savingsLabel = EmptyLabel

\* C11 amended: as C11, but the label states s - d, and the percentage d,
\* rounded to a nearest whole number.
C11_PriceAndRoundedLabel ==
    (BundleLoaded /\ ~DiscountNumber.nan) =>
        LET s == ProductsSubtotal
            d == DiscountNumber
            price == loaderData.pricing
        IN /\ price.subtotal = s
           /\ FieldValue("bundle_type") = JStr(FixedPriceType) =>
                  /\ price.bundlePrice = d
                  /\ price.savingsLabel # EmptyLabel <=> s.v - d.v > 0
                  /\ s.v - d.v > 0 =>
                         /\ price.savingsLabel.text = "You save"
                         /\ price.savingsLabel.suffix = ""
                         /\ Rounds(price.savingsLabel.number, Num(s.v - d.v))
           /\ FieldValue("bundle_type") = JStr(PercentageType) =>
                  /\ price.bundlePrice = Sub(s, TimesPercent(s, d))
                  /\ price.savingsLabel.text = "You save"
                  /\ price.savingsLabel.suffix = "%"
                  /\ Rounds(price.savingsLabel.number, d)
           /\ FieldValue("bundle_type") \notin
                      {JStr(FixedPriceType), JStr(PercentageType)} =>
                  /\ price.bundlePrice = s
                  /\ price.savingsLabel = EmptyLabel

\* a percentage bundle of subtotal 100 and discount 25: 75, "You save 25%"
C11_Witness ==
    /\ BundleLoaded
    /\ FieldValue("bundle_type") = JStr(PercentageType)
    /\ DiscountNumber = Num(25 * Unit)
    /\ loaderData.pricing.subtotal = Num(100 * Unit)
    /\ loaderData.pricing.bundlePrice = Num(75 * Unit)
    /\ loaderData.pricing.savingsLabel = Label(Num(25 * Unit), "%")

\* the file_reference field resolves to a URL
Resolvable(reference) ==
    \/ /\ reference.typename = "MediaImage"
       /\ reference.image.t = "object"
       /\ reference.image.url.t = "str"
       /\ reference.image.url.v # <<>>
    \/ /\ reference.typename = "GenericFile"
       /\ reference.url.t = "str"
       /\ reference.url.v # <<>>

\* C12: a file_reference field whose reference does not resolve to a URL has
\* no key in the flattened record, and one that resolves maps to an object
\* {url, altText}.
C12_UnresolvedOmitted ==
    BundleLoaded =>
        \A i \in 1..Len(metaobject.fields) :
            LET field == metaobject.fields[i]
            IN field.type = "file_reference" =>
                   IF Resolvable(field.reference)
                   THEN /\ field.key \in DOMAIN loaderData.bundle
                        /\ loaderData.bundle[field.key].t = "object"
                        /\ loaderData.bundle[field.key].url.v # <<>>
                   ELSE field.key \notin DOMAIN loaderData.bundle

\* C13 as stated: a discount_value that writes no number makes bundlePrice
\* NaN for fixed_price and for percentage.
C13_NaNForBothTypes ==
    (/\ BundleLoaded
     /\ DiscountNumber.nan
     /\ FieldValue("bundle_type") \in {JStr(FixedPriceType), JStr(PercentageType)})
        => loaderData.pricing.bundlePrice.nan

\* C13 amended: a discount_value that writes no number makes bundlePrice NaN
\* for fixed_price, with no label; for percentage the discount is skipped:
\* bundlePrice is the subtotal, with no label.
C13_NaNForFixedPriceOnly ==
    (BundleLoaded /\ DiscountNumber.nan) =>
        /\ loaderData.pricing.savingsLabel = EmptyLabel
        /\ FieldValue("bundle_type") = JStr(FixedPriceType) =>
               loaderData.pricing.bundlePrice.nan
        /\ FieldValue("bundle_type") = JStr(PercentageType) =>
               loaderData.pricing.bundlePrice = ProductsSubtotal

\* a fixed_price bundle whose discount_value is "abc", with a priced product
C13_Witness ==
    /\ BundleLoaded
    /\ FieldValue("bundle_type") = JStr(FixedPriceType)
    /\ FieldValue("discount_value") = JStr(<<"a", "b", "c">>)
    /\ loaderData.pricing.subtotal = Num(100 * Unit)
    /\ loaderData.pricing.bundlePrice.nan

----------------------------------------------------------------------------
(* Claims about overlapping fetchRecommendations calls, under Spec *)

InFlight(c) == calls[c].pc # "done"
AllSettled == calls # <<>> /\ \A c \in 1..Len(calls) : ~InFlight(c)

\* C14: once every call has settled, recommendedProducts and error are what
\* the most recently started call computes from its inputs (the current
\* props): a late response or failure of an earlier call has not overwritten
\* them.
C14_LatestCallWins ==
    AllSettled =>
        LET last == calls[Len(calls)]
        IN /\ last.outcome = "shortcut" =>
                  recommendedProducts = FirstSix(fallbackProducts)
           /\ last.outcome = "failed" =>
                  /\ recommendedProducts = FirstSix(fallbackProducts)
                  /\ error # Null
           /\ last.outcome = "stored" =>
                  /\ recommendedProducts =
                         WidgetSettle(requests[last.req].response.recommendations,
                                      availableProducts, fallbackProducts).products
                  /\ error = Null

\* C15: loading is true while a call is in flight, and false once every
\* started call has settled.
C15_LoadingWhileInFlight ==
    /\ (\E c \in 1..Len(calls) : InFlight(c)) => loading = TRUE
    /\ AllSettled => loading = FALSE

====
